---------------------------- MODULE Spec2Model ----------------------------
(***************************************************************************)
(* State-machine model of syra-login-rs:                                   *)
(*   - the issuer server (src/src/main.rs): the once-sealed issuer key      *)
(*     state behind a std::sync::Mutex, generate_issuer_keys, the           *)
(*     generate_user_key handler and the actix router in front of it;       *)
(*   - the Groth16 JWT verifier (src/src/jwt_proof_verifier.rs,             *)
(*     src/src/proof.rs);                                                   *)
(*   - the trusted dealer (src/dkg/src/main.rs).                            *)
(*                                                                         *)
(* Scaling.  The scalar fields of BLS12-381 and BN254 have ~255-bit prime   *)
(* orders and the RSA modulus has 2048 bits; TLC's integers have 32.  The   *)
(* model keeps the arithmetic (prime fields, mask-and-shift limbs) and      *)
(* scales the sizes: FR_MODULUS and BN_MODULUS are small primes, CHUNK_BITS *)
(* is 2 instead of 121 and the verifying key has IC_LEN = 5 entries         *)
(* instead of 20, so that a "full-size" modulus has 2 limbs instead of 17.  *)
(* A group element g^x is represented by its group and its exponent x.      *)
(***************************************************************************)
EXTENDS Integers, Sequences, FiniteSets, TLC

----------------------------------------------------------------------------
(* Scaled program constants *)

\* order of ark_bls12_381::Fr (scaled)
FR_MODULUS == 7

\* order of ark_bn254::Fr (scaled)
BN_MODULUS == 11

\* pub const CHUNK_BITS: usize = 121 (scaled)
CHUNK_BITS == 2

\* vk.gamma_abc_g1.len(): the IC array of verification_key.json (scaled)
IC_LEN == 5

Fr == 0 .. (FR_MODULUS - 1)

----------------------------------------------------------------------------
(* Field arithmetic of ark_ff over the scaled fields *)

FrAdd(a, b) == (a + b) % FR_MODULUS

FrMul(a, b) == (a * b) % FR_MODULUS

RECURSIVE FrPow(_, _)
FrPow(x, j) == IF j = 0 THEN 1 ELSE FrMul(x, FrPow(x, j - 1))

\* Field::inverse: None at zero, Some(y) with x*y = 1 otherwise
FrInverse(x) ==
    IF x % FR_MODULUS = 0
      THEN [tag |-> "None"]
      ELSE [tag |-> "Some",
            v |-> CHOOSE y \in 1 .. (FR_MODULUS - 1) : FrMul(x, y) = 1]

----------------------------------------------------------------------------
(* Subject strings are byte sequences *)

\* one round of the loop: acc *= 256; acc += byte
AccStep(acc, byte) == FrAdd(FrMul(acc, 256 % FR_MODULUS), byte % FR_MODULUS)

\* s_from_sub: acc <- acc*256 + byte from 0, then 0 is remapped to 1
RECURSIVE SubAcc(_)
SubAcc(sub) ==
    IF sub = <<>> THEN 0
    ELSE AccStep(SubAcc(SubSeq(sub, 1, Len(sub) - 1)), sub[Len(sub)])

\* Remap returning the accumulation as it is
RemapNone(acc) == acc

\* if acc.is_zero() { Fr::one() } else { acc }
Remap(acc) == IF acc = 0 THEN 1 ELSE acc

s_from_sub(sub) == Remap(SubAcc(sub))


----------------------------------------------------------------------------
(* jwt_proof_verifier.rs: the pure steps of Verifier::verify *)

Ok(v) == [tag |-> "Ok", v |-> v]

Err(e) == [tag |-> "Err", e |-> e]

\* ASCII '0'..'9'
IsDigit(b) == b \in 48 .. 57

\* value of a string of decimal digits, most significant first
RECURSIVE DecValue(_)
DecValue(sub) ==
    IF sub = <<>> THEN 0
    ELSE 10 * DecValue(SubSeq(sub, 1, Len(sub) - 1)) + (sub[Len(sub)] - 48)

\* BigUint::parse_bytes(sub.as_bytes(), 10): None for the empty string and
\* for any byte that is not a digit of the radix; leading zeros are accepted
ParseDec(sub) ==
    IF sub # <<>> /\ \A i \in 1 .. Len(sub) : IsDigit(sub[i])
      THEN [tag |-> "Some", v |-> DecValue(sub)]
      ELSE [tag |-> "None"]

\* biguint_to_fr: Fr::from_le_bytes_mod_order, reduction modulo the order
biguint_to_fr(x) == x % BN_MODULUS

RECURSIVE Pow2(_)
Pow2(k) == IF k = 0 THEN 1 ELSE 2 * Pow2(k - 1)

\* low_bits keeping one bit more than the chunk
low_bits_wide(n, bits) == n % Pow2(bits + 1)

\* &n & &mask with mask = (1 << chunk_bits) - 1
low_bits(n, bits) == n % Pow2(bits)

\* n >>= chunk_bits
shr(n, bits) == n \div Pow2(bits)

\* the loop of chunk_modulus: push n & mask, n >>= chunk_bits, while n > 0
RECURSIVE Limbs(_, _)
Limbs(n, bits) ==
    IF n > 0
      THEN <<low_bits(n, bits)>> \o Limbs(shr(n, bits), bits)
      ELSE <<>>

\* BigUint::from_bytes_be: leading zero bytes do not change the value
RECURSIVE from_bytes_be(_)
from_bytes_be(bytes) ==
    IF bytes = <<>> THEN 0
    ELSE 256 * from_bytes_be(SubSeq(bytes, 1, Len(bytes) - 1)) + bytes[Len(bytes)]

\* chunk_modulus: base64url-decode (may fail), big-endian integer, limbs
chunk_modulus(n_b64url, bits) ==
    IF n_b64url.b64ok
      THEN Ok(Limbs(from_bytes_be(n_b64url.bytes), bits))
      ELSE Err("base64")

RECURSIVE SeqMap_biguint_to_fr(_)
SeqMap_biguint_to_fr(limbs) ==
    IF limbs = <<>> THEN <<>>
    ELSE <<biguint_to_fr(Head(limbs))>> \o SeqMap_biguint_to_fr(Tail(limbs))

\* the subject twice in front of the limbs
PublicInputsSubjectFirst(sub_fr, limbs) ==
    <<sub_fr, sub_fr>> \o SeqMap_biguint_to_fr(limbs)

\* vec![sub_fr]; extend(limbs.map(biguint_to_fr)); push(sub_fr)
PublicInputs(sub_fr, limbs) == <<sub_fr>> \o SeqMap_biguint_to_fr(limbs) \o <<sub_fr>>

\* proof.rs.  A proof string is [b64ok, bytes, json_ok, deser_ok, stmt]:
\* whether base64::decode accepts it, the decoded payload, whether
\* serde_json and str_to_fq accept the payload as a JsProof, whether
\* Proof::deserialize_* accepts the payload, and the statement (the
\* public-input vector) the decoded proof was generated for.

\* the two legal lengths of the binary encoding, 192 and 259 (scaled)
COMPRESSED_LEN == 2

UNCOMPRESSED_LEN == 3

\* char::is_whitespace on ASCII
IsWhitespace(b) == b \in {9, 10, 11, 12, 13, 32}

\* std::str::from_utf8 succeeds; of the bytes the model uses, those below
\* 128 are one-byte characters and 255 never occurs in UTF-8
IsUtf8(bytes) == \A j \in 1 .. Len(bytes) : bytes[j] < 128

RECURSIVE trim_start(_)
trim_start(txt) ==
    IF txt # <<>> /\ IsWhitespace(Head(txt)) THEN trim_start(Tail(txt)) ELSE txt

\* starts_with('{')
starts_with_brace(txt) == txt # <<>> /\ Head(txt) = 123

\* DecodeBranch deciding on the first byte without trim_start
DecodeBranchUntrimmed(bytes) ==
    IF IsUtf8(bytes) /\ starts_with_brace(bytes) THEN "json" ELSE "binary"

\* base64_to_proof, lines 94-101: branch A for UTF-8 text whose first
\* non-whitespace character is '{', branch B otherwise
DecodeBranch(bytes) ==
    IF IsUtf8(bytes) /\ starts_with_brace(trim_start(bytes)) THEN "json" ELSE "binary"

\* proof_from_snarkjs_json: serde_json::from_str and str_to_fq, each with `?`
proof_from_snarkjs_json(p) ==
    IF p.json_ok THEN Ok([stmt |-> p.stmt]) ELSE Err("json")

\* the deserializer proof_from_ark_bytes hands a payload of this length to
Deserializer(len) ==
    IF len = UNCOMPRESSED_LEN THEN "uncompressed"
    ELSE IF len = COMPRESSED_LEN THEN "compressed"
    ELSE "none"

\* proof_from_ark_bytes: match raw.len()
proof_from_ark_bytes(p) ==
    IF Deserializer(Len(p.bytes)) = "none" THEN Err("unknown proof binary size")
    ELSE IF p.deser_ok THEN Ok([stmt |-> p.stmt])
    ELSE Err(Deserializer(Len(p.bytes)) \o " deserialize failed")

\* base64_to_proof
base64_to_proof(proof_b64) ==
    IF ~proof_b64.b64ok THEN Err("base64")
    ELSE IF DecodeBranch(proof_b64.bytes) = "json"
      THEN proof_from_snarkjs_json(proof_b64)
      ELSE proof_from_ark_bytes(proof_b64)

\* the pairing check alone, without the length check of prepare_inputs
verify_with_processed_vk_unchecked(public_inputs, proof) ==
    Ok(proof.stmt = public_inputs)

\* Groth16::verify_with_processed_vk: prepare_inputs rejects a vector whose
\* length + 1 differs from gamma_abc_g1.len(); the pairing check accepts
\* exactly the statement the proof was generated for
verify_with_processed_vk(public_inputs, proof) ==
    IF Len(public_inputs) + 1 # IC_LEN
      THEN Err("malformed verifying key")
      ELSE Ok(proof.stmt = public_inputs)

\* fetch_google_key: GET the key set (transport/status/json errors), then
\* the first key whose kid matches
fetch_google_key(jwks, kid) ==
    IF jwks.tag = "down" THEN Err("fetch")
    ELSE IF \E i \in 1 .. Len(jwks.keys) : jwks.keys[i].kid = kid
      THEN Ok(jwks.keys[CHOOSE i \in 1 .. Len(jwks.keys) :
                          /\ jwks.keys[i].kid = kid
                          /\ \A j \in 1 .. (i - 1) : jwks.keys[j].kid # kid])
      ELSE Err("kid not found")

\* Verifier::verify after the key-set response has arrived
verify(jwks, sub, kid, proof_b64) ==
    LET jwk == fetch_google_key(jwks, kid) IN
    IF jwk.tag = "Err" THEN jwk ELSE
    LET limbs == chunk_modulus(jwk.v.n, CHUNK_BITS) IN
    IF limbs.tag = "Err" THEN limbs ELSE
    LET sub_big == ParseDec(sub) IN
    IF sub_big.tag = "None" THEN Err("sub is not valid decimal") ELSE
    LET public_inputs == PublicInputs(biguint_to_fr(sub_big.v), limbs.v)
        proof == base64_to_proof(proof_b64) IN
    IF proof.tag = "Err" THEN proof ELSE
    verify_with_processed_vk(public_inputs, proof.v)


----------------------------------------------------------------------------
(* main.rs: group elements, key material, encodings *)

\* a group element g^e of G1 or G2, by its exponent to the fixed base
Point(grp, e) == [grp |-> grp, e |-> e % FR_MODULUS]

\* G1Projective::from(p) * k, into_affine
ScalarMul(p, k) == Point(p.grp, p.e * k)

\* serialize_compressed, then hex::encode: canonical and injective
to_hex(x) == [hex |-> x]

\* affine_group_elem_from_try_and_incr of the two fixed tags
Bp == [g1 |-> Point("G1", 1), g2 |-> Point("G2", 1)]

\* StoredIssuerKeys built by generate_issuer_keys from its three samples
StoredIssuerKeys(isk, r1, r2) ==
    [bp      |-> Bp,
     isk     |-> isk,
     ivk_hat |-> ScalarMul(Bp.g2, isk),
     W       |-> ScalarMul(Bp.g1, r1),
     W_hat   |-> ScalarMul(Bp.g2, r2)]

\* Option<StoredIssuerKeys>
None == [tag |-> "None"]

Some(k) == [tag |-> "Some", v |-> k]

\* IvkBundle of the stored material
IvkBundle(k) == [bp |-> k.bp, ivk_hat |-> k.ivk_hat, W |-> k.W, W_hat |-> k.W_hat]

\* IvkBundle::to_hex_string: g1 || g2 || ivk_hat || W || W_hat, hex-encoded
to_hex_string(b) == to_hex(<<b.bp.g1, b.bp.g2, b.ivk_hat, b.W, b.W_hat>>)

\* GenerateKeyResponse for stored material k and inv = (s + isk)^-1
GenerateKeyResponse(k, inv) ==
    [ivk     |-> to_hex_string(IvkBundle(k)),
     usk     |-> to_hex(ScalarMul(k.bp.g1, inv)),
     usk_hat |-> to_hex(ScalarMul(k.bp.g2, inv))]

NoResponse == [tag |-> "none"]


----------------------------------------------------------------------------
(* The inputs the model enumerates *)

\* subject strings (ASCII) of requests: "1", "01", "a"
Subjects == {<<49>>, <<48, 49>>, <<97>>}

\* the identity provider's keys: two full-size moduli (2 limbs each)
JwkK1 == [kid |-> "k1", n |-> [b64ok |-> TRUE, bytes |-> <<13>>]]

JwkK2 == [kid |-> "k2", n |-> [b64ok |-> TRUE, bytes |-> <<14>>]]

Kids == {"k1", "k2"}

\* what a GET of the key directory can yield: a failure, or a key set
JwksStates ==
    {[tag |-> "down"],
     [tag |-> "set", keys |-> <<JwkK1, JwkK2>>],
     [tag |-> "set", keys |-> <<JwkK2>>]}

\* the statement an honest prover proves for a token with subject integer x
\* signed under the key with modulus n
Statement(x, n) == PublicInputs(biguint_to_fr(x), Limbs(n, CHUNK_BITS))

\* proof strings: one that does not decode, and the proof of a token with
\* subject 1 signed under k1
ProofStrings ==
    {[b64ok |-> FALSE, bytes |-> <<>>, json_ok |-> FALSE, deser_ok |-> FALSE,
      stmt |-> <<>>],
     [b64ok |-> TRUE, bytes |-> <<65, 65>>, json_ok |-> FALSE, deser_ok |-> TRUE,
      stmt |-> Statement(1, 13)]}

GenerateKeyRequests == [user_id : Subjects, kid : Kids, proof : ProofStrings]

\* dealt-share messages {A, f_i, Ai_all}
DkgPointMessages ==
    {[A |-> to_hex(Point("G1", 3)), f_i |-> to_hex(2), Ai_all |-> <<to_hex(Point("G1", 2))>>],
     [A |-> to_hex(Point("G1", 5)), f_i |-> to_hex(4), Ai_all |-> <<to_hex(Point("G1", 4))>>]}

\* the values Fr::rand yields in generate_issuer_keys: (isk, r1, r2)
KeySamples == {<<6, 1, 2>>, <<2, 3, 5>>}

\* worker threads of the HTTP server, concurrent handler invocations, and
\* concurrent callers of generate_issuer_keys
Workers == {1, 2}

Handlers == {1, 2}

\* Spec runs two handler invocations against one caller of
\* generate_issuer_keys; SpecSeal runs two callers against one invocation
ServeCallers == {1}

SealHandlers == {1}

\* the worker threads an invocation may be scheduled on: the threads are
\* interchangeable, so the first invocation is put on the first thread
WorkersOf(r) == IF r = 1 THEN {1} ELSE Workers

Callers == {1, 2}

----------------------------------------------------------------------------
(* The issuer server: state *)

VARIABLES
    issuer_keys,   \* AppState.issuer_keys: the Option inside the Mutex
    holder,        \* the task holding the MutexGuard, or NoHolder
    poisoned,      \* the Mutex's poison flag
    jwks,          \* what the identity provider's key directory answers now
    pc,            \* per handler invocation: idle, lock, fetch, done
    worker,        \* per handler invocation: the worker thread running it
    req,           \* per handler invocation: [path, body]
    stored,        \* per handler invocation: the Option read through the guard
                   \*   (Unread before); `stored` borrows the v of a Some
    seen,          \* per handler invocation: issuer_keys when it arrived
    fetches,       \* per handler invocation: key-set fetches performed
    jwks_changed,  \* whether the key directory has changed since the start
    outcome,       \* per handler invocation: the response status
    resp,          \* per handler invocation: the response body
    kpc,           \* per generate_issuer_keys call: idle, lock, check, store, done
    kres           \* per generate_issuer_keys call: its result

svars == <<issuer_keys, holder, poisoned, jwks, pc, worker, req, stored, seen,
           fetches, jwks_changed, outcome, resp, kpc, kres>>

NoHolder == <<"free", 0>>

Task(r) == <<"http", r>>

Call(k) == <<"keygen", k>>

NoRequest == [path |-> "", body |-> [tag |-> "none"]]

\* stored[r] before the handler has read the Option
Unread == [tag |-> "Unread"]

\* worker[r] of an invocation that is on no thread
NoWorker == 0

\* App::new().service(generate_user_key): the only registered route
Services == {"/admin/generate_user_key"}

\* the paths clients post to: the user-key endpoint, and the endpoint the
\* dealer posts its DkgPointMessage to
Paths == {"/admin/generate_user_key", "/admin/receive_dkg"}

Bodies(path) ==
    IF path = "/admin/generate_user_key" THEN GenerateKeyRequests
    ELSE DkgPointMessages

\* a worker thread runs one task at a time; a task inside lock() occupies
\* its thread until lock() returns
WorkerBusy(w) == \E r \in Handlers : pc[r] = "lock" /\ worker[r] = w

\* Mutex::lock returns only when no other guard is alive
LockAvailable == holder = NoHolder

ServerInit ==
    /\ issuer_keys = None
    /\ holder = NoHolder
    /\ poisoned = FALSE
    /\ jwks \in JwksStates
    /\ pc = [r \in Handlers |-> "idle"]
    /\ worker = [r \in Handlers |-> NoWorker]
    /\ req = [r \in Handlers |-> NoRequest]
    /\ stored = [r \in Handlers |-> Unread]
    /\ seen = [r \in Handlers |-> None]
    /\ fetches = [r \in Handlers |-> 0]
    /\ jwks_changed = FALSE
    /\ outcome = [r \in Handlers |-> "none"]
    /\ resp = [r \in Handlers |-> NoResponse]
    /\ kpc = [k \in Callers |-> "idle"]
    /\ kres = [k \in Callers |-> [tag |-> "none"]]


----------------------------------------------------------------------------
(* The issuer server: generate_user_key *)

\* AfterVerify without the `if !verified` check
AfterVerifyUnchecked(k, verified, user_id) ==
    IF verified.tag = "Err"
      THEN [outcome |-> "unauthorized", resp |-> NoResponse]
      ELSE LET inv == FrInverse(FrAdd(s_from_sub(user_id), k.isk)) IN
           IF inv.tag = "None"
             THEN [outcome |-> "panic", resp |-> NoResponse]
             ELSE [outcome |-> "ok", resp |-> GenerateKeyResponse(k, inv.v)]

\* generate_user_key after verify(...).await: map_err(..)? and `if !verified`
\* give 401; then s = s_from_sub(user_id), inv = (s + isk).inverse()
\* .expect(..), which panics at None; then the response
AfterVerify(k, verified, user_id) ==
    IF verified.tag = "Err" \/ ~verified.v
      THEN [outcome |-> "unauthorized", resp |-> NoResponse]
      ELSE LET inv == FrInverse(FrAdd(s_from_sub(user_id), k.isk)) IN
           IF inv.tag = "None"
             THEN [outcome |-> "panic", resp |-> NoResponse]
             ELSE [outcome |-> "ok", resp |-> GenerateKeyResponse(k, inv.v)]

\* OnRead answering an unsealed state with the proof-failure status
OnReadUnauthorized(opt) == IF opt.tag = "Some" THEN "none" ELSE "unauthorized"

\* `if let Some(s) = &*lock { s.clone() } else { return Err(ErrorBadRequest) }`:
\* the status returned at once, "none" when the handler goes on
OnRead(opt) == IF opt.tag = "Some" THEN "none" ELSE "bad_request"

\* A request reaches the router on a free worker thread.  A path with no
\* registered service is answered 404 by the framework; a registered one
\* starts its handler, whose first statement is issuer_keys.lock().
Arrive(r, w, path, body) ==
    /\ pc[r] \in {"idle", "done"}
    /\ ~WorkerBusy(w)
    /\ req' = [req EXCEPT ![r] = [path |-> path, body |-> body]]
    /\ stored' = [stored EXCEPT ![r] = Unread]
    /\ seen' = [seen EXCEPT ![r] = issuer_keys]
    /\ fetches' = [fetches EXCEPT ![r] = 0]
    /\ resp' = [resp EXCEPT ![r] = NoResponse]
    /\ IF path \in Services
         THEN /\ pc' = [pc EXCEPT ![r] = "lock"]
              /\ worker' = [worker EXCEPT ![r] = w]
              /\ outcome' = [outcome EXCEPT ![r] = "none"]
         ELSE /\ pc' = [pc EXCEPT ![r] = "done"]
              /\ worker' = [worker EXCEPT ![r] = NoWorker]
              /\ outcome' = [outcome EXCEPT ![r] = "not_found"]
    /\ UNCHANGED <<issuer_keys, holder, poisoned, jwks, jwks_changed, kpc, kres>>

\* lock().unwrap() returns in the handler: a poisoned mutex panics (the
\* guard inside the PoisonError is dropped); None returns 400 and drops the
\* guard; Some(s) borrows the stored keys and the handler goes on to
\* verifier.verify(..).await with the guard still alive.
HandlerLock(r) ==
    /\ pc[r] = "lock"
    /\ LockAvailable
    /\ IF poisoned
         THEN /\ pc' = [pc EXCEPT ![r] = "done"]
              /\ worker' = [worker EXCEPT ![r] = NoWorker]
              /\ outcome' = [outcome EXCEPT ![r] = "panic"]
              /\ UNCHANGED <<holder, stored>>
         ELSE /\ stored' = [stored EXCEPT ![r] = issuer_keys]
              /\ outcome' = [outcome EXCEPT ![r] = OnRead(issuer_keys)]
              /\ IF OnRead(issuer_keys) # "none"
                   THEN /\ pc' = [pc EXCEPT ![r] = "done"]
                        /\ worker' = [worker EXCEPT ![r] = NoWorker]
                        /\ UNCHANGED holder
                   ELSE /\ pc' = [pc EXCEPT ![r] = "fetch"]
                        /\ holder' = Task(r)
                        /\ UNCHANGED worker
    /\ UNCHANGED <<issuer_keys, poisoned, jwks, req, seen, fetches, jwks_changed,
                   resp, kpc, kres>>

\* The key-set response arrives and the worker resumes the handler, which
\* runs to its end without another await: the rest of verify, the 401
\* checks, the inversion (a panic drops the guard while unwinding, which
\* poisons the mutex) and the response.  The guard is dropped at the end.
HandlerResume(r) ==
    /\ pc[r] = "fetch"
    /\ ~WorkerBusy(worker[r])
    /\ LET b == req[r].body
           out == AfterVerify(stored[r].v,
                              verify(jwks, b.user_id, b.kid, b.proof),
                              b.user_id)
       IN /\ outcome' = [outcome EXCEPT ![r] = out.outcome]
          /\ resp' = [resp EXCEPT ![r] = out.resp]
          /\ poisoned' = (poisoned \/ out.outcome = "panic")
    /\ fetches' = [fetches EXCEPT ![r] = @ + 1]
    /\ pc' = [pc EXCEPT ![r] = "done"]
    /\ worker' = [worker EXCEPT ![r] = NoWorker]
    /\ holder' = NoHolder
    /\ UNCHANGED <<issuer_keys, jwks, req, stored, seen, jwks_changed, kpc, kres>>

----------------------------------------------------------------------------
(* The issuer server: generate_issuer_keys *)

\* guard.is_some()
is_some(opt) == opt.tag = "Some"

\* a thread calls generate_issuer_keys(&state)
KeygenCall(k) ==
    /\ kpc[k] = "idle"
    /\ kpc' = [kpc EXCEPT ![k] = "lock"]
    /\ UNCHANGED <<issuer_keys, holder, poisoned, jwks, pc, worker, req, stored,
                   seen, fetches, jwks_changed, outcome, resp, kres>>

\* state.issuer_keys.lock().unwrap()
KeygenLock(k) ==
    /\ kpc[k] = "lock"
    /\ LockAvailable
    /\ IF poisoned
         THEN /\ kpc' = [kpc EXCEPT ![k] = "done"]
              /\ kres' = [kres EXCEPT ![k] = [tag |-> "panic"]]
              /\ UNCHANGED holder
         ELSE /\ kpc' = [kpc EXCEPT ![k] = "check"]
              /\ holder' = Call(k)
              /\ UNCHANGED kres
    /\ UNCHANGED <<issuer_keys, poisoned, jwks, pc, worker, req, stored, seen,
                   fetches, jwks_changed, outcome, resp>>

\* if guard.is_some() { return Err(AlreadyGenerated) }
KeygenCheck(k) ==
    /\ kpc[k] = "check"
    /\ IF is_some(issuer_keys)
         THEN /\ kpc' = [kpc EXCEPT ![k] = "done"]
              /\ kres' = [kres EXCEPT ![k] = Err("AlreadyGenerated")]
              /\ holder' = NoHolder
         ELSE /\ kpc' = [kpc EXCEPT ![k] = "store"]
              /\ UNCHANGED <<kres, holder>>
    /\ UNCHANGED <<issuer_keys, poisoned, jwks, pc, worker, req, stored, seen,
                   fetches, jwks_changed, outcome, resp>>

\* sample isk, r1, r2; *guard = Some(StoredIssuerKeys{..}); Ok(ivk)
KeygenStore(k, sample) ==
    /\ kpc[k] = "store"
    /\ LET keys == StoredIssuerKeys(sample[1], sample[2], sample[3])
       IN /\ issuer_keys' = Some(keys)
          /\ kres' = [kres EXCEPT ![k] = Ok(IvkBundle(keys))]
    /\ kpc' = [kpc EXCEPT ![k] = "done"]
    /\ holder' = NoHolder
    /\ UNCHANGED <<poisoned, jwks, pc, worker, req, stored, seen, fetches,
                   jwks_changed, outcome, resp>>

----------------------------------------------------------------------------
(* The identity provider *)

\* the key directory rotates its keys, goes down or comes back
JwksChange(j) ==
    /\ j # jwks
    /\ jwks' = j
    /\ jwks_changed' = TRUE
    /\ UNCHANGED <<issuer_keys, holder, poisoned, pc, worker, req, stored, seen,
                   fetches, outcome, resp, kpc, kres>>


----------------------------------------------------------------------------
(* Properties of the issuer server *)

UserKeyPath == "/admin/generate_user_key"

ReceivePath == "/admin/receive_dkg"

\* the handler invocations of a path that have been answered
Answered(path) == {r \in Handlers : pc[r] = "done" /\ req[r].path = path}

\* the request's proof was generated for exactly its subject integer and the
\* modulus of a key of the identity provider carrying its kid
ProofMatches(b) ==
    /\ base64_to_proof(b.proof).tag = "Ok"
    /\ ParseDec(b.user_id).tag = "Some"
    /\ \E jwk \in {JwkK1, JwkK2} :
         /\ jwk.kid = b.kid
         /\ b.proof.stmt = Statement(ParseDec(b.user_id).v, from_bytes_be(jwk.n.bytes))

\* C1: gated issuance.  A response carrying {ivk, usk, usk_hat} exists only
\* for a request that read the issuer key state as Some (sealed), fetched
\* the key set, and whose proof verifies for its own (user_id, kid, proof);
\* the keys returned are derived from the state it read.  Every other
\* request carries no key material.
GatedIssuance ==
    \A r \in Handlers :
      (outcome[r] = "ok" \/ resp[r] # NoResponse) =>
        /\ outcome[r] = "ok"
        /\ pc[r] = "done"
        /\ req[r].path = UserKeyPath
        /\ is_some(stored[r])
        /\ fetches[r] = 1
        /\ ProofMatches(req[r].body)
        /\ resp[r].ivk = to_hex_string(IvkBundle(stored[r].v))
        /\ resp[r].usk.hex.grp = "G1"
        /\ resp[r].usk_hat.hex.grp = "G2"

\* C1 witness: a request has been answered with user keys
GatedIssuanceWitness ==
    \E r \in Handlers : outcome[r] = "ok" /\ resp[r] # NoResponse

\* C5: distinct error outcomes.  A request that read the state as None ends
\* in 400 without any fetch; a request that read Some and whose proof does
\* not verify ends in 401; 400 is given only after reading None and 401 only
\* after reading Some and fetching.
DistinctErrors ==
    \A r \in Answered(UserKeyPath) :
      /\ stored[r] = None => outcome[r] = "bad_request" /\ fetches[r] = 0
      /\ (is_some(stored[r]) /\ ~ProofMatches(req[r].body))
           => outcome[r] = "unauthorized"
      /\ outcome[r] = "bad_request" => stored[r] = None
      /\ outcome[r] = "unauthorized" => is_some(stored[r]) /\ fetches[r] = 1

\* C5 witness: one request was answered 400 and another 401
DistinctErrorsWitness ==
    \E r, q \in Answered(UserKeyPath) :
      outcome[r] = "bad_request" /\ outcome[q] = "unauthorized"

\* C6 as claimed: a request whose subject scalar s satisfies s + isk = 0
\* ends in the 401 outcome, an error value returned to the caller.
InversionFailureUnauthorized ==
    \A r \in Answered(UserKeyPath) :
      (is_some(stored[r])
         /\ FrAdd(s_from_sub(req[r].body.user_id), stored[r].v.isk) = 0)
        => outcome[r] = "unauthorized"

\* C7 as claimed: with the key directory unchanged, two answered requests
\* with identical (user_id, kid, proof) that both arrived at the same sealed
\* state have the identical outcome and response.
DerivationIdempotent ==
    ~jwks_changed =>
      \A r, q \in Answered(UserKeyPath) :
        (req[r] = req[q] /\ is_some(seen[r]) /\ seen[r] = seen[q])
          => outcome[r] = outcome[q] /\ resp[r] = resp[q]

\* C8 as claimed: the requests accepted with one proof all present the same
\* subject string.
ProofSubjectBinding ==
    \A r, q \in Answered(UserKeyPath) :
      (outcome[r] = "ok" /\ outcome[q] = "ok"
         /\ req[r].body.proof = req[q].body.proof)
        => req[r].body.user_id = req[q].body.user_id

\* C4 as claimed: a dealt-share message posted to the receive-share endpoint
\* is answered with success and leaves the issuer key state sealed.
ReceiveShareAccepted ==
    \A r \in Answered(ReceivePath) :
      outcome[r] = "ok" /\ is_some(issuer_keys)

\* C2 as claimed: once a call of generate_issuer_keys has returned Ok, the
\* stored material is what that call stored and every other finished call
\* has returned Err(AlreadyGenerated).
SelfKeygenExactlyOnce ==
    \A k \in Callers :
      kres[k].tag = "Ok" =>
        /\ is_some(issuer_keys)
        /\ IvkBundle(issuer_keys.v) = kres[k].v
        /\ \A j \in Callers \ {k} :
             kpc[j] = "done" => kres[j] = Err("AlreadyGenerated")

\* C3 as claimed: of all seal attempts at most one seals; a losing
\* self-keygen returns AlreadyGenerated and a losing receive-share is
\* answered with success.
ConcurrentSealing ==
    /\ Cardinality({k \in Callers : kres[k].tag = "Ok"}) <= 1
    /\ \A k \in Callers :
         kpc[k] = "done" => kres[k].tag = "Ok" \/ kres[k] = Err("AlreadyGenerated")
    /\ \A r \in Answered(ReceivePath) : outcome[r] = "ok"

\* the handler invocations awaiting the key set inside verifier.verify
Verifying == {r \in Handlers : pc[r] = "fetch"}

\* C12 as claimed: lock scope in derivation.  A request that has gone on to
\* the signing-key fetch and the proof verification no longer holds the
\* issuer-key-state lock.
LockReleasedBeforeVerify ==
    \A r \in Verifying : holder # Task(r)


----------------------------------------------------------------------------
(* The dealer (dkg/src/main.rs) *)

\* the source's parameters: n parties, threshold t, one peer url
N_PARTIES == 5

THRESHOLD == 3

N_PEER_URLS == 1

\* bounds on the dealer's parameters where a run generalises the source's:
\* parties n <= MaxN, threshold t <= MaxT, target addresses <= MaxPeers
MaxN == 5

MaxT == 3

MaxPeers == 2

\* every (n, t) with 1 <= t <= n, the source's peer_urls
ShareConfigs ==
    {c \in [n : 1 .. MaxN, t : 1 .. MaxT, peers : {N_PEER_URLS}] : c.t <= c.n}

\* the source's n and t, any number of peer_urls
SendConfigs == [n : {N_PARTIES}, t : {THRESHOLD}, peers : 1 .. MaxPeers]

\* the outcomes of client.post(..).send().await
SendOutcomes == {"2xx", "non2xx", "transport error"}

VARIABLES
    cfg,           \* the run's n, t and number of peer_urls
    alpha,         \* the dealt secret
    coeffs,        \* the polynomial: coeffs[j + 1] is the source's coeffs[j]
    A,             \* g * alpha
    alpha_i_map,   \* i -> f(i), i in 1..n
    Ai_list,       \* the commitments g * f(i), in index order
    dpc,           \* start, send, await, sleep, done
    i,             \* the loop's index into peer_urls (0-based)
    inflight,      \* the posts issued and not yet answered
    posted,        \* every post issued so far: [url, msg]
    log,           \* the lines printed per answered post: [idx, res]
    result,        \* the run's result: running, Ok, panic
    events         \* the run's encoding and network steps so far, in order

dvars == <<cfg, alpha, coeffs, A, alpha_i_map, Ai_list, dpc, i, inflight, posted, log,
           result, events>>

\* a step of the run: to_hex of A, of commitment k or of share k; the post
\* to target k, its completion, the end of the sleep after it
Event(op, what, k) == [op |-> op, what |-> what, k |-> k]

\* Fr::from(i as u64)
FrFrom(x) == x % FR_MODULUS

\* fold(Fr::zero(), |acc, (j, &c)| acc + c * x.pow(&[j])) from term j on
RECURSIVE Fold(_, _, _)
Fold(cs, x, j) ==
    IF j > Len(cs) THEN 0
    ELSE FrAdd(FrMul(cs[j], FrPow(x, j - 1)), Fold(cs, x, j + 1))

\* Evaluate with the powers off by one: sum of coeffs[j] * x^(j+1)
EvaluateShifted(cs, idx) == FrMul(FrFrom(idx), Fold(cs, FrFrom(idx), 1))

\* f_i for party index i
Evaluate(cs, idx) == Fold(cs, FrFrom(idx), 1)

\* the values of the t-1 further samples: (1..t).map(|_| Fr::rand(&mut rng))
RandVectors(t) == [1 .. (t - 1) -> Fr]

\* DkgPointMessage { sid, A: A_hex, f_i: f_i_hex, Ai_all: Ai_all_hex }
DkgMessage(a, f_i, ais) ==
    [sid    |-> "syra-session-001",
     A      |-> to_hex(a),
     f_i    |-> to_hex(f_i),
     Ai_all |-> [k \in 1 .. Len(ais) |-> to_hex(ais[k])]]

G == Point("G1", 1)

DealerInit(configs) ==
    /\ cfg \in configs
    /\ alpha = 0
    /\ coeffs = <<>>
    /\ A = G
    /\ alpha_i_map = <<>>
    /\ Ai_list = <<>>
    /\ dpc = "start"
    /\ i = 0
    /\ inflight = {}
    /\ posted = <<>>
    /\ log = <<>>
    /\ result = "running"
    /\ events = <<>>

\* lines 91-125: sample alpha, A = g*alpha, coeffs = [alpha] ++ t-1 further
\* samples, evaluate f at 1..n, the commitments, the hex encodings
DealerSetup(a, rest) ==
    /\ dpc = "start"
    /\ alpha' = a
    /\ A' = ScalarMul(G, a)
    /\ coeffs' = <<a>> \o rest
    /\ alpha_i_map' = [k \in 1 .. cfg.n |-> Evaluate(coeffs', k)]
    /\ Ai_list' = [k \in 1 .. cfg.n |-> ScalarMul(G, Evaluate(coeffs', k))]
    /\ events' = <<Event("to_hex", "A", 0)>>
                    \o [k \in 1 .. cfg.n |-> Event("to_hex", "Ai", k)]
    /\ dpc' = "send"
    /\ UNCHANGED <<cfg, i, inflight, posted, log, result>>

\* AfterPost with the send detached instead of awaited
AfterPostDetached == "sleep"

\* where the loop goes once the post is issued: `.send().await` suspends
\* the loop until the send has completed
AfterPost == "await"

\* the loop head and lines 131-146: the next url, or the end of the loop
\* and Ok(()); alpha_i_map.get(&idx).unwrap() panics on a missing index;
\* the message is built and the post issued
DealerSend ==
    /\ dpc = "send"
    /\ IF i >= cfg.peers
         THEN /\ dpc' = "done"
              /\ result' = "Ok"
              /\ UNCHANGED <<inflight, posted, events>>
         ELSE IF (i + 1) \notin DOMAIN alpha_i_map
           THEN /\ dpc' = "done"
                /\ result' = "panic"
                /\ UNCHANGED <<inflight, posted, events>>
           ELSE LET msg == DkgMessage(A, alpha_i_map[i + 1], Ai_list) IN
                /\ dpc' = AfterPost
                /\ inflight' = inflight \cup {i + 1}
                /\ posted' = Append(posted, [url |-> i + 1, msg |-> msg])
                /\ events' = events \o <<Event("to_hex", "f_i", i + 1),
                                         Event("post", "url", i + 1)>>
                /\ UNCHANGED result
    /\ UNCHANGED <<cfg, alpha, coeffs, A, alpha_i_map, Ai_list, i, log>>

\* SendFatal with the send's error propagated (`.send().await?`)
SendFatalOnError(res) == res = "transport error"

\* whether a send outcome ends the run: `res` is matched, every arm only
\* prints a line
SendFatal(res) == FALSE

\* lines 146-154: the send completes with some outcome, which is printed
DealerResponse(res) ==
    /\ dpc = "await"
    /\ inflight' = inflight \ {i + 1}
    /\ IF SendFatal(res)
         THEN /\ dpc' = "done"
              /\ result' = "Err"
              /\ UNCHANGED log
         ELSE /\ dpc' = "sleep"
              /\ log' = Append(log, [idx |-> i + 1, res |-> res])
              /\ UNCHANGED result
    /\ events' = Append(events, Event("response", "url", i + 1))
    /\ UNCHANGED <<cfg, alpha, coeffs, A, alpha_i_map, Ai_list, i, posted>>

\* line 156: the 100 ms sleep elapses and the loop advances
DealerWake ==
    /\ dpc = "sleep"
    /\ i' = i + 1
    /\ dpc' = "send"
    /\ events' = Append(events, Event("slept", "url", i + 1))
    /\ UNCHANGED <<cfg, alpha, coeffs, A, alpha_i_map, Ai_list, inflight, posted,
                   log, result>>


----------------------------------------------------------------------------
(* Verifier::verify, step by step (jwt_proof_verifier.rs:100-128) *)

\* keys of the identity provider: a modulus with leading zero bytes, one
\* with fewer limbs than the verifying key expects, the zero modulus, one
\* with more limbs, and one whose n is not base64url
JwkLeadingZero == [kid |-> "k3", n |-> [b64ok |-> TRUE, bytes |-> <<0, 0, 13>>]]

JwkShort == [kid |-> "k4", n |-> [b64ok |-> TRUE, bytes |-> <<3>>]]

JwkZero == [kid |-> "k5", n |-> [b64ok |-> TRUE, bytes |-> <<0>>]]

JwkLong == [kid |-> "k6", n |-> [b64ok |-> TRUE, bytes |-> <<63>>]]

JwkBadB64 == [kid |-> "k7", n |-> [b64ok |-> FALSE, bytes |-> <<>>]]

\* what a GET of the key directory can yield
VerifyDirs ==
    {[tag |-> "down"],
     [tag |-> "set", keys |-> <<JwkK1, JwkLeadingZero, JwkShort>>],
     [tag |-> "set", keys |-> <<JwkZero, JwkLong, JwkBadB64>>]}

VerifyKids == {"k1", "k3", "k4", "k5", "k6", "k7", "kx"}

\* sub arguments: "1", "2", "a"
VerifySubs == {<<49>>, <<50>>, <<97>>}

\* a well-formed binary proof generated for the statement stmt
ProofFor(stmt) ==
    [b64ok |-> TRUE, bytes |-> <<65, 65>>, json_ok |-> FALSE, deser_ok |-> TRUE,
     stmt |-> stmt]

\* proof arguments: one that does not decode, and proofs for subject 1 with
\* the full-size, the short, the zero and the long modulus
VerifyProofs ==
    {[b64ok |-> FALSE, bytes |-> <<>>, json_ok |-> FALSE, deser_ok |-> FALSE,
      stmt |-> <<>>],
     ProofFor(Statement(1, 13)), ProofFor(Statement(1, 3)),
     ProofFor(Statement(1, 0)), ProofFor(Statement(1, 63))}

VerifyCalls == [sub : VerifySubs, kid : VerifyKids, proof_b64 : VerifyProofs]

VARIABLES
    v_jwks,           \* what the identity provider's key directory answers now
    vpc,              \* idle, fetch, chunk, parse, inputs, decode, groth16, done
    v_req,            \* the arguments of the call: [sub, kid, proof_b64]
    v_set,            \* the response to this call's GET, NoSet before it
    v_last,           \* the response to the previous call's GET, NoSet if none
    v_prev,           \* the previous call: its kid and whether it returned Ok(true)
    v_jwk,            \* jwk
    v_limbs,          \* limbs
    v_sub_fr,         \* sub_fr
    v_public_inputs,  \* public_inputs
    v_proof,          \* proof
    v_result,         \* the value returned
    v_steps           \* the steps of this call so far, in order

vvars == <<v_jwks, vpc, v_req, v_set, v_last, v_prev, v_jwk, v_limbs, v_sub_fr,
           v_public_inputs, v_proof, v_result, v_steps>>

NoSet == [tag |-> "none"]

NoCall == [sub |-> <<>>, kid |-> "", proof_b64 |-> [tag |-> "none"]]

NoJwk == [kid |-> "", n |-> [b64ok |-> FALSE, bytes |-> <<>>]]

NoProof == [stmt |-> <<>>]

Pending == [tag |-> "pending"]

NoPrev == [kid |-> "", ok |-> FALSE]

VerifyInit ==
    /\ v_jwks \in VerifyDirs
    /\ vpc = "idle"
    /\ v_req = NoCall
    /\ v_set = NoSet
    /\ v_last = NoSet
    /\ v_prev = NoPrev
    /\ v_jwk = NoJwk
    /\ v_limbs = <<>>
    /\ v_sub_fr = 0
    /\ v_public_inputs = <<>>
    /\ v_proof = NoProof
    /\ v_result = Pending
    /\ v_steps = <<>>

\* the key set of an earlier call reused when there is one
FetchedOrCached(response) == IF v_last.tag = "set" THEN v_last ELSE response

\* the key set fetch_google_key looks the kid up in: the response to the
\* GET it has just sent
Fetched(response) == response

\* verify(sub, kid, proof_b64) is called
VerifyCall(call) ==
    /\ vpc \in {"idle", "done"}
    /\ vpc' = "fetch"
    /\ v_req' = call
    /\ v_last' = IF v_set = NoSet THEN v_last ELSE v_set
    /\ v_prev' = [kid |-> v_req.kid, ok |-> v_result = Ok(TRUE)]
    /\ v_set' = NoSet
    /\ v_jwk' = NoJwk
    /\ v_limbs' = <<>>
    /\ v_sub_fr' = 0
    /\ v_public_inputs' = <<>>
    /\ v_proof' = NoProof
    /\ v_result' = Pending
    /\ v_steps' = <<>>
    /\ UNCHANGED v_jwks

\* a step of the call returns early through `?`
VerifyFail(err) ==
    /\ vpc' = "done"
    /\ v_result' = err

\* line 102: self.fetch_google_key(kid).await?
VerifyFetch ==
    /\ vpc = "fetch"
    /\ v_set' = v_jwks
    /\ v_steps' = Append(v_steps, "fetch")
    /\ LET jwk == fetch_google_key(Fetched(v_jwks), v_req.kid) IN
       IF jwk.tag = "Err"
         THEN VerifyFail(jwk) /\ UNCHANGED v_jwk
         ELSE vpc' = "chunk" /\ v_jwk' = jwk.v /\ UNCHANGED v_result
    /\ UNCHANGED <<v_jwks, v_req, v_last, v_prev, v_limbs, v_sub_fr, v_public_inputs,
                   v_proof>>

\* line 105: chunk_modulus(&jwk.n, CHUNK_BITS)?
VerifyChunk ==
    /\ vpc = "chunk"
    /\ v_steps' = Append(v_steps, "chunk")
    /\ LET limbs == chunk_modulus(v_jwk.n, CHUNK_BITS) IN
       IF limbs.tag = "Err"
         THEN VerifyFail(limbs) /\ UNCHANGED v_limbs
         ELSE vpc' = "parse" /\ v_limbs' = limbs.v /\ UNCHANGED v_result
    /\ UNCHANGED <<v_jwks, v_req, v_set, v_last, v_prev, v_jwk, v_sub_fr, v_public_inputs,
                   v_proof>>

\* lines 109-111: BigUint::parse_bytes(..).ok_or_else(..)?, biguint_to_fr
VerifyParse ==
    /\ vpc = "parse"
    /\ v_steps' = Append(v_steps, "parse")
    /\ LET sub_big == ParseDec(v_req.sub) IN
       IF sub_big.tag = "None"
         THEN VerifyFail(Err("sub is not valid decimal")) /\ UNCHANGED v_sub_fr
         ELSE vpc' = "inputs" /\ v_sub_fr' = biguint_to_fr(sub_big.v)
              /\ UNCHANGED v_result
    /\ UNCHANGED <<v_jwks, v_req, v_set, v_last, v_prev, v_jwk, v_limbs, v_public_inputs,
                   v_proof>>

\* lines 113-119: the public inputs
VerifyInputs ==
    /\ vpc = "inputs"
    /\ v_steps' = Append(v_steps, "inputs")
    /\ v_public_inputs' = PublicInputs(v_sub_fr, v_limbs)
    /\ vpc' = "decode"
    /\ UNCHANGED <<v_jwks, v_req, v_set, v_last, v_prev, v_jwk, v_limbs, v_sub_fr, v_proof,
                   v_result>>

\* line 122: base64_to_proof(&proof_b64)?
VerifyDecode ==
    /\ vpc = "decode"
    /\ v_steps' = Append(v_steps, "decode")
    /\ LET proof == base64_to_proof(v_req.proof_b64) IN
       IF proof.tag = "Err"
         THEN VerifyFail(proof) /\ UNCHANGED v_proof
         ELSE vpc' = "groth16" /\ v_proof' = proof.v /\ UNCHANGED v_result
    /\ UNCHANGED <<v_jwks, v_req, v_set, v_last, v_prev, v_jwk, v_limbs, v_sub_fr,
                   v_public_inputs>>

\* lines 125-127: process_vk, verify_with_processed_vk(..)?, Ok(verified)
VerifyGroth16 ==
    /\ vpc = "groth16"
    /\ v_steps' = Append(v_steps, "groth16")
    /\ v_result' = verify_with_processed_vk(v_public_inputs, v_proof)
    /\ vpc' = "done"
    /\ UNCHANGED <<v_jwks, v_req, v_set, v_last, v_prev, v_jwk, v_limbs, v_sub_fr,
                   v_public_inputs, v_proof>>

\* the identity provider rotates its keys, goes down or comes back
VerifyDirChange(j) ==
    /\ j # v_jwks
    /\ v_jwks' = j
    /\ UNCHANGED <<vpc, v_req, v_set, v_last, v_prev, v_jwk, v_limbs, v_sub_fr,
                   v_public_inputs, v_proof, v_result, v_steps>>

----------------------------------------------------------------------------
(* chunk_modulus, step by step (jwt_proof_verifier.rs:202-212) *)

\* bounds on the arguments: the last byte of the modulus, the chunk width,
\* and the number of limbs a run is followed for
MaxByte == 31

MaxWidth == 3

MaxLimbs == 7

\* n_b64url arguments: a string that is not base64url, the empty payload,
\* one byte, and one byte behind a leading zero byte
ChunkArgs ==
    {[b64ok |-> FALSE, bytes |-> <<>>], [b64ok |-> TRUE, bytes |-> <<>>]}
      \cup {[b64ok |-> TRUE, bytes |-> <<b>>] : b \in 0 .. MaxByte}
      \cup {[b64ok |-> TRUE, bytes |-> <<0, b>>] : b \in 0 .. MaxByte}

VARIABLES
    c_arg,     \* n_b64url
    c_bits,    \* chunk_bits
    cpc,       \* decode, loop, returned
    c_n,       \* n
    c_limbs,   \* limbs
    c_result   \* the value returned

cvars == <<c_arg, c_bits, cpc, c_n, c_limbs, c_result>>

ChunkInit(args, widths) ==
    /\ c_arg \in args
    /\ c_bits \in widths
    /\ cpc = "decode"
    /\ c_n = 0
    /\ c_limbs = <<>>
    /\ c_result = Pending

\* lines 203-206: decode(n_b64url)?, from_bytes_be, the mask, limbs
ChunkDecode ==
    /\ cpc = "decode"
    /\ IF c_arg.b64ok
         THEN /\ c_n' = from_bytes_be(c_arg.bytes)
              /\ cpc' = "loop"
              /\ UNCHANGED c_result
         ELSE /\ c_result' = Err("base64")
              /\ cpc' = "returned"
              /\ UNCHANGED c_n
    /\ UNCHANGED <<c_arg, c_bits, c_limbs>>

\* lines 207-210: one round of the while loop
ChunkLoop ==
    /\ cpc = "loop"
    /\ c_n > 0
    /\ Len(c_limbs) < MaxLimbs
    /\ c_limbs' = Append(c_limbs, low_bits(c_n, c_bits))
    /\ c_n' = shr(c_n, c_bits)
    /\ UNCHANGED <<c_arg, c_bits, cpc, c_result>>

\* line 211: the loop has ended, Ok(limbs)
ChunkReturn ==
    /\ cpc = "loop"
    /\ c_n = 0
    /\ c_result' = Ok(c_limbs)
    /\ cpc' = "returned"
    /\ UNCHANGED <<c_arg, c_bits, c_n, c_limbs>>

----------------------------------------------------------------------------
(* s_from_sub and the inversion, step by step (main.rs:153-162, 258-260) *)

\* bound on the length of a subject string
MaxSubLen == 3

\* the bytes of subject strings: NUL, '1' (a multiple of the scaled field
\* order), '2' and 'a'
SubBytes == {0, 49, 50, 97}

SubStrings == UNION {[1 .. l -> SubBytes] : l \in 0 .. MaxSubLen}

VARIABLES
    s_sub,   \* sub
    s_isk,   \* stored.isk
    spc,     \* loop, derived, inverted
    s_pos,   \* the bytes consumed so far
    s_acc,   \* acc
    s_out,   \* s
    s_inv    \* (s + isk).inverse()

scvars == <<s_sub, s_isk, spc, s_pos, s_acc, s_out, s_inv>>

ScalarInit(subs) ==
    /\ s_sub \in subs
    /\ s_isk \in Fr
    /\ spc = "loop"
    /\ s_pos = 0
    /\ s_acc = 0
    /\ s_out = 0
    /\ s_inv = Pending

\* lines 156-159: one round of the loop over the bytes
ScalarLoop ==
    /\ spc = "loop"
    /\ s_pos < Len(s_sub)
    /\ s_acc' = AccStep(s_acc, s_sub[s_pos + 1])
    /\ s_pos' = s_pos + 1
    /\ UNCHANGED <<s_sub, s_isk, spc, s_out, s_inv>>

\* line 161: the remap and the return
ScalarReturn ==
    /\ spc = "loop"
    /\ s_pos = Len(s_sub)
    /\ s_out' = Remap(s_acc)
    /\ spc' = "derived"
    /\ UNCHANGED <<s_sub, s_isk, s_pos, s_acc, s_inv>>

\* main.rs:258-259: (s + isk).inverse()
ScalarInvert ==
    /\ spc = "derived"
    /\ s_inv' = FrInverse(FrAdd(s_out, s_isk))
    /\ spc' = "inverted"
    /\ UNCHANGED <<s_sub, s_isk, s_pos, s_acc, s_out>>

----------------------------------------------------------------------------
(* base64_to_proof, step by step (proof.rs:76-102) *)

\* bound on the length of a decoded payload
MaxPayload == 4

\* the bytes of payloads: space, '{', 'A' and 0xFF
PayloadBytes == {32, 123, 65, 255}

Payloads == UNION {[1 .. l -> PayloadBytes] : l \in 0 .. MaxPayload}

\* proof strings: one that is not base64, and every payload with every
\* verdict of the JSON and of the binary deserializer on it
ProofArgs ==
    {[b64ok |-> FALSE, bytes |-> <<>>, json_ok |-> FALSE, deser_ok |-> FALSE,
      stmt |-> <<>>]}
      \cup [b64ok : {TRUE}, bytes : Payloads, json_ok : BOOLEAN,
            deser_ok : BOOLEAN, stmt : {<<>>}]

VARIABLES
    p_arg,     \* b64
    ppc,       \* decode, branch, json, binary, returned
    p_deser,   \* the deserializer the payload was handed to, if any
    p_branch,  \* the branch taken, if any
    p_result   \* the value returned

pvars == <<p_arg, ppc, p_deser, p_branch, p_result>>

ProofInit(args) ==
    /\ p_arg \in args
    /\ ppc = "decode"
    /\ p_deser = "none"
    /\ p_branch = "none"
    /\ p_result = Pending

\* line 91: base64::decode(b64.trim())?
ProofBase64 ==
    /\ ppc = "decode"
    /\ IF p_arg.b64ok
         THEN ppc' = "branch" /\ UNCHANGED p_result
         ELSE ppc' = "returned" /\ p_result' = Err("base64")
    /\ UNCHANGED <<p_arg, p_deser, p_branch>>

\* lines 94-101: the choice of the branch
ProofBranch ==
    /\ ppc = "branch"
    /\ p_branch' = DecodeBranch(p_arg.bytes)
    /\ ppc' = p_branch'
    /\ UNCHANGED <<p_arg, p_deser, p_result>>

\* line 96: return proof_from_snarkjs_json(txt)
ProofJson ==
    /\ ppc = "json"
    /\ p_result' = proof_from_snarkjs_json(p_arg)
    /\ ppc' = "returned"
    /\ UNCHANGED <<p_arg, p_deser, p_branch>>

\* line 101 and lines 76-85: proof_from_ark_bytes(&bytes)
ProofBinary ==
    /\ ppc = "binary"
    /\ p_deser' = Deserializer(Len(p_arg.bytes))
    /\ p_result' = proof_from_ark_bytes(p_arg)
    /\ ppc' = "returned"
    /\ UNCHANGED <<p_arg, p_branch>>

----------------------------------------------------------------------------
(* main of the issuer server (main.rs:289-324) *)

VARIABLE
    mpc   \* start, keygen, serving, aborted

\* line 300: after Verifier::new() main calls generate_issuer_keys(&state)
AfterVerifierNew == "keygen"

\* lines 291-299: Verifier::new().await.expect(..), which parses the
\* verifying key and panics when that fails; then the AppState
MainVerifier(parsed) ==
    /\ mpc = "start"
    /\ mpc' = IF parsed THEN AfterVerifierNew ELSE "aborted"

\* lines 300-323: generate_issuer_keys has returned; unwrap_or_else panics
\* on Err, otherwise the HttpServer is built, bound and run
MainServe ==
    /\ mpc = "keygen"
    /\ kpc[1] = "done"
    /\ mpc' = IF kres[1].tag = "Ok" THEN "serving" ELSE "aborted"

----------------------------------------------------------------------------
(* Specifications.  The server, the dealer and the step-by-step runs of   *)
(* the verifier's functions are separate: each specification runs one and  *)
(* keeps the variables of the others at rest.                              *)

vars == <<svars, dvars, vvars, cvars, scvars, pvars, mpc>>

DealerAtRest ==
    DealerInit({[n |-> N_PARTIES, t |-> THRESHOLD, peers |-> N_PEER_URLS]})

ServerAtRest == ServerInit /\ jwks = [tag |-> "down"] /\ mpc = "start"

VerifyAtRest == VerifyInit /\ v_jwks = [tag |-> "down"]

ChunkAtRest == ChunkInit({[b64ok |-> TRUE, bytes |-> <<>>]}, {CHUNK_BITS})

ScalarAtRest == ScalarInit({<<>>}) /\ s_isk = 0

ProofAtRest == ProofInit({[b64ok |-> FALSE, bytes |-> <<>>, json_ok |-> FALSE,
                           deser_ok |-> FALSE, stmt |-> <<>>]})

FunctionsAtRest == VerifyAtRest /\ ChunkAtRest /\ ScalarAtRest /\ ProofAtRest

fvars == <<vvars, cvars, scvars, pvars>>

\* the steps of the server with handler invocations hs and callers ks of
\* generate_issuer_keys; the dealer is a separate process
Steps(hs, ks) ==
    \/ \E r \in hs, path \in Paths :
         \E w \in WorkersOf(r), body \in Bodies(path) :
           Arrive(r, w, path, body) /\ UNCHANGED <<dvars, fvars, mpc>>
    \/ \E r \in hs : HandlerLock(r) /\ UNCHANGED <<dvars, fvars, mpc>>
    \/ \E r \in hs : HandlerResume(r) /\ UNCHANGED <<dvars, fvars, mpc>>
    \/ \E k \in ks : KeygenCall(k) /\ UNCHANGED <<dvars, fvars, mpc>>
    \/ \E k \in ks : KeygenLock(k) /\ UNCHANGED <<dvars, fvars, mpc>>
    \/ \E k \in ks : KeygenCheck(k) /\ UNCHANGED <<dvars, fvars, mpc>>
    \/ \E k \in ks, sample \in KeySamples :
         KeygenStore(k, sample) /\ UNCHANGED <<dvars, fvars, mpc>>
    \/ \E j \in JwksStates : JwksChange(j) /\ UNCHANGED <<dvars, fvars, mpc>>

ServerNext == Steps(Handlers, ServeCallers)

SealNext == Steps(SealHandlers, Callers)

\* the steps of the dealer
DealerNext ==
    \/ \E a \in Fr, rest \in RandVectors(cfg.t) :
         DealerSetup(a, rest) /\ UNCHANGED <<svars, fvars, mpc>>
    \/ DealerSend /\ UNCHANGED <<svars, fvars, mpc>>
    \/ \E res \in SendOutcomes : DealerResponse(res) /\ UNCHANGED <<svars, fvars, mpc>>
    \/ DealerWake /\ UNCHANGED <<svars, fvars, mpc>>

\* the steps of main and of the server it starts: the handlers run once the
\* HttpServer runs, the one call of generate_issuer_keys is main's
MainNext ==
    \/ \E parsed \in BOOLEAN :
         MainVerifier(parsed) /\ UNCHANGED <<svars, dvars, fvars>>
    \/ mpc = "keygen" /\ KeygenCall(1) /\ UNCHANGED <<dvars, fvars, mpc>>
    \/ mpc = "keygen" /\ KeygenLock(1) /\ UNCHANGED <<dvars, fvars, mpc>>
    \/ mpc = "keygen" /\ KeygenCheck(1) /\ UNCHANGED <<dvars, fvars, mpc>>
    \/ \E sample \in KeySamples :
         mpc = "keygen" /\ KeygenStore(1, sample) /\ UNCHANGED <<dvars, fvars, mpc>>
    \/ MainServe /\ UNCHANGED <<svars, dvars, fvars>>
    \/ \E r \in Handlers, path \in Paths :
         \E w \in WorkersOf(r), body \in Bodies(path) :
           mpc = "serving" /\ Arrive(r, w, path, body)
             /\ UNCHANGED <<dvars, fvars, mpc>>
    \/ \E r \in Handlers :
         mpc = "serving" /\ HandlerLock(r) /\ UNCHANGED <<dvars, fvars, mpc>>
    \/ \E r \in Handlers :
         mpc = "serving" /\ HandlerResume(r) /\ UNCHANGED <<dvars, fvars, mpc>>
    \/ \E j \in JwksStates : JwksChange(j) /\ UNCHANGED <<dvars, fvars, mpc>>

\* the steps of calls of Verifier::verify and of the key directory
VerifyNext ==
    \/ \E call \in VerifyCalls :
         VerifyCall(call) /\ UNCHANGED <<mpc, svars, dvars, cvars, scvars, pvars>>
    \/ VerifyFetch /\ UNCHANGED <<mpc, svars, dvars, cvars, scvars, pvars>>
    \/ VerifyChunk /\ UNCHANGED <<mpc, svars, dvars, cvars, scvars, pvars>>
    \/ VerifyParse /\ UNCHANGED <<mpc, svars, dvars, cvars, scvars, pvars>>
    \/ VerifyInputs /\ UNCHANGED <<mpc, svars, dvars, cvars, scvars, pvars>>
    \/ VerifyDecode /\ UNCHANGED <<mpc, svars, dvars, cvars, scvars, pvars>>
    \/ VerifyGroth16 /\ UNCHANGED <<mpc, svars, dvars, cvars, scvars, pvars>>
    \/ \E j \in VerifyDirs :
         VerifyDirChange(j) /\ UNCHANGED <<mpc, svars, dvars, cvars, scvars, pvars>>

\* the steps of a call of chunk_modulus
ChunkNext ==
    \/ ChunkDecode /\ UNCHANGED <<mpc, svars, dvars, vvars, scvars, pvars>>
    \/ ChunkLoop /\ UNCHANGED <<mpc, svars, dvars, vvars, scvars, pvars>>
    \/ ChunkReturn /\ UNCHANGED <<mpc, svars, dvars, vvars, scvars, pvars>>

\* the steps of s_from_sub and of the inversion that follows it
ScalarNext ==
    \/ ScalarLoop /\ UNCHANGED <<mpc, svars, dvars, vvars, cvars, pvars>>
    \/ ScalarReturn /\ UNCHANGED <<mpc, svars, dvars, vvars, cvars, pvars>>
    \/ ScalarInvert /\ UNCHANGED <<mpc, svars, dvars, vvars, cvars, pvars>>

\* the steps of a call of base64_to_proof
ProofNext ==
    \/ ProofBase64 /\ UNCHANGED <<mpc, svars, dvars, vvars, cvars, scvars>>
    \/ ProofBranch /\ UNCHANGED <<mpc, svars, dvars, vvars, cvars, scvars>>
    \/ ProofJson /\ UNCHANGED <<mpc, svars, dvars, vvars, cvars, scvars>>
    \/ ProofBinary /\ UNCHANGED <<mpc, svars, dvars, vvars, cvars, scvars>>

\* the issuer server: two handler invocations, one caller of generate_issuer_keys
Init == ServerInit /\ mpc = "start" /\ DealerAtRest /\ FunctionsAtRest

Spec == Init /\ [][ServerNext]_vars

\* the issuer server: one handler invocation, two callers of generate_issuer_keys
SpecSeal == Init /\ [][SealNext]_vars

\* the issuer server from the start of main
SpecMain == Init /\ [][MainNext]_vars

\* the dealer, over the parameters of the sharing
SharesInit == DealerInit(ShareConfigs) /\ ServerAtRest /\ FunctionsAtRest

SpecShares == SharesInit /\ [][DealerNext]_vars

\* the dealer, over the number of targets
SendsInit == DealerInit(SendConfigs) /\ ServerAtRest /\ FunctionsAtRest

SpecDealer == SendsInit /\ [][DealerNext]_vars

\* calls of Verifier::verify
VerifierInit ==
    /\ VerifyInit
    /\ ServerAtRest /\ DealerAtRest /\ ChunkAtRest /\ ScalarAtRest /\ ProofAtRest

SpecVerify == VerifierInit /\ [][VerifyNext]_vars

\* chunk_modulus over its arguments
ChunkingInit ==
    /\ ChunkInit(ChunkArgs, 0 .. MaxWidth)
    /\ ServerAtRest /\ DealerAtRest /\ VerifyAtRest /\ ScalarAtRest /\ ProofAtRest

SpecChunk == ChunkingInit /\ [][ChunkNext]_vars

\* s_from_sub over the subject strings, the inversion over the issuer secrets
ScalarsInit ==
    /\ ScalarInit(SubStrings)
    /\ ServerAtRest /\ DealerAtRest /\ VerifyAtRest /\ ChunkAtRest /\ ProofAtRest

SpecScalar == ScalarsInit /\ [][ScalarNext]_vars

\* base64_to_proof over the proof strings
ProofsInit ==
    /\ ProofInit(ProofArgs)
    /\ ServerAtRest /\ DealerAtRest /\ VerifyAtRest /\ ChunkAtRest /\ ScalarAtRest

SpecProof == ProofsInit /\ [][ProofNext]_vars

----------------------------------------------------------------------------
(* Properties of the dealer *)

FrSub(a, b) == (a + FR_MODULUS - (b % FR_MODULUS)) % FR_MODULUS

RECURSIVE SetProduct(_, _)
SetProduct(S, f) ==
    IF S = {} THEN 1
    ELSE LET x == CHOOSE y \in S : TRUE IN FrMul(f[x], SetProduct(S \ {x}, f))

RECURSIVE SetSum(_, _)
SetSum(S, f) ==
    IF S = {} THEN 0
    ELSE LET x == CHOOSE y \in S : TRUE IN FrAdd(f[x], SetSum(S \ {x}, f))

\* the Lagrange basis polynomial of point p over the points S, at x = 0
LagrangeBasisAtZero(S, p) ==
    LET term == [q \in S \ {p} |->
                    FrMul(FrSub(0, FrFrom(q)),
                          FrInverse(FrSub(FrFrom(p), FrFrom(q))).v)]
    IN SetProduct(S \ {p}, term)

\* the interpolation at x = 0 of the shares sh of the parties S
LagrangeAtZero(S, sh) ==
    LET term == [p \in S |-> FrMul(sh[p], LagrangeBasisAtZero(S, p))]
    IN SetSum(S, term)

\* C9: Shamir reconstruction.  Once the shares are dealt there are n of
\* them and t coefficients, A = g^alpha is the value every message carries,
\* and the Lagrange interpolation at x = 0 of the shares of any t distinct
\* parties is alpha.
ShamirReconstruction ==
    dpc # "start" =>
      /\ Len(coeffs) = cfg.t
      /\ DOMAIN alpha_i_map = 1 .. cfg.n
      /\ A = ScalarMul(G, alpha)
      /\ \A j \in 1 .. Len(posted) : posted[j].msg.A = to_hex(ScalarMul(G, alpha))
      /\ \A S \in SUBSET (1 .. cfg.n) :
           Cardinality(S) = cfg.t => LagrangeAtZero(S, alpha_i_map) = alpha

\* C9 witness: the source's n = 5, t = 3 with a polynomial of degree 2 and
\* a non-zero secret has been dealt
ShamirReconstructionWitness ==
    /\ dpc # "start"
    /\ cfg.n = N_PARTIES /\ cfg.t = THRESHOLD
    /\ alpha # 0 /\ coeffs[3] # 0

\* the posts issued to target k so far
PostsTo(k) == {j \in 1 .. Len(posted) : posted[j].url = k}

RoutedToOwner ==
    \A j \in 1 .. Len(posted) :
      LET k == posted[j].url
          m == posted[j].msg
      IN /\ k = j
         /\ DOMAIN m = {"sid", "A", "f_i", "Ai_all"}
         /\ m.f_i = to_hex(Evaluate(coeffs, k))
         /\ m.A = to_hex(ScalarMul(G, alpha))
         /\ Len(m.Ai_all) = cfg.n
         /\ \A p \in 1 .. cfg.n :
              m.Ai_all[p] = to_hex(ScalarMul(G, Evaluate(coeffs, p)))

\* C11 as claimed: share routing.  Every message is routed to the owner of
\* its share, and when the run of the source's configuration has finished
\* each of the n parties has been the target of exactly one message.
ShareRouting ==
    /\ RoutedToOwner
    /\ (dpc = "done" /\ cfg.peers = N_PEER_URLS) =>
         \A p \in 1 .. cfg.n : Cardinality(PostsTo(p)) = 1

IsNetworkEvent(e) == e.op # "to_hex"

NetworkEvents == SelectSeq(events, IsNetworkEvent)

\* the j-th network step of a strictly sequential run: post, completion and
\* elapsed pause of target 1, then of target 2, ...
SequentialStep(j) ==
    Event(<<"post", "response", "slept">>[((j - 1) % 3) + 1], "url", ((j - 1) \div 3) + 1)

\* C14: dealer sends are strictly sequential.  At most one send is in
\* flight, the targets are posted to in list order, and the network steps
\* of the run are post 1, completion 1, pause 1, post 2, ...: a post is
\* issued only after the previous one has completed and the pause after it
\* has elapsed.
SequentialSends ==
    /\ Cardinality(inflight) <= 1
    /\ \A j \in 1 .. Len(posted) : posted[j].url = j
    /\ \A j \in 1 .. Len(NetworkEvents) : NetworkEvents[j] = SequentialStep(j)

\* C14 witness: the second target has been posted to after a first send
\* that failed
SequentialSendsWitness ==
    /\ Len(posted) = 2
    /\ Len(log) >= 1
    /\ log[1].res # "2xx"

----------------------------------------------------------------------------
(* Properties of Verifier::verify *)

\* the integer whose limbs of w bits, least significant first, are limbs
RECURSIVE LimbValue(_, _)
LimbValue(limbs, w) ==
    IF limbs = <<>> THEN 0
    ELSE Head(limbs) + Pow2(w) * LimbValue(Tail(limbs), w)

\* the step named what is among the steps the call has taken
Took(what) == \E j \in 1 .. Len(v_steps) : v_steps[j] = what

\* C15: Public-input ordering.  Once a call has built its public inputs
\* from the subject scalar s and the k limbs L of the fetched modulus, the
\* vector has length k + 2, holds s in its first and in its last position
\* and the limbs, unchanged and least significant first, in between; this
\* vector is the one Groth16 verification is run on.
PublicInputOrdering ==
    Took("inputs") =>
      LET s == v_sub_fr
          L == v_limbs
          k == Len(v_limbs)
      IN /\ s = biguint_to_fr(DecValue(v_req.sub))
         /\ LimbValue(L, CHUNK_BITS) = from_bytes_be(v_jwk.n.bytes)
         /\ Len(v_public_inputs) = k + 2
         /\ v_public_inputs[1] = s
         /\ v_public_inputs[k + 2] = s
         /\ \A j \in 1 .. k : v_public_inputs[j + 1] = L[j]
         /\ v_public_inputs = <<s>> \o L \o <<s>>
         /\ Took("groth16") =>
              v_result = verify_with_processed_vk(<<s>> \o L \o <<s>>, v_proof)

\* C15 witness: a call over a modulus of two different limbs has run
\* Groth16 verification on its vector and accepted
PublicInputOrderingWitness ==
    /\ vpc = "done"
    /\ Took("groth16")
    /\ v_result = Ok(TRUE)
    /\ Len(v_limbs) = 2
    /\ v_limbs[1] # v_limbs[2]
    /\ v_public_inputs = <<v_sub_fr, v_limbs[1], v_limbs[2], v_sub_fr>>

\* the number of limbs the verifying key's public-input layout expects
ExpectedLimbs == IC_LEN - 3

----------------------------------------------------------------------------
(* Properties of chunk_modulus *)

\* the number of significant bits of n
RECURSIVE BitLen(_)
BitLen(n) == IF n = 0 THEN 0 ELSE 1 + BitLen(n \div 2)

\* the integer chunk_modulus was given
ChunkInput == from_bytes_be(c_arg.bytes)

\* what a run of chunk_modulus on a decodable argument n with width w = c_bits
\* keeps true: the limbs pushed so far and the rest of n recompose n, every
\* limb is below 2^w, the loop runs at most as many rounds as n has bits and
\* can always take its next step; at the return nothing of n is left, the
\* limbs sum to n, the last limb is non-zero, there are no limbs for 0, their
\* number is the number of bits of n divided by w, rounded up, and a modulus
\* of full size cut at the width in use has the expected number of limbs
ChunkRun ==
    (c_arg.b64ok /\ cpc # "decode") =>
      LET n == ChunkInput
          w == c_bits
          k == Len(c_limbs)
      IN /\ LimbValue(c_limbs, w) + c_n * Pow2(w * k) = n
         /\ \A j \in 1 .. k : c_limbs[j] < Pow2(w)
         /\ k <= BitLen(n)
         /\ cpc = "loop" => ENABLED ChunkNext
         /\ cpc = "returned" =>
              /\ c_n = 0
              /\ c_result = Ok(c_limbs)
              /\ c_result = chunk_modulus(c_arg, w)
              /\ LimbValue(c_limbs, w) = n
              /\ n = 0 => c_limbs = <<>>
              /\ n > 0 => (k > 0 /\ c_limbs[k] # 0)
              /\ (k - 1) * w < BitLen(n) \/ k = 0
              /\ BitLen(n) <= k * w
              /\ (/\ w = CHUNK_BITS
                  /\ (ExpectedLimbs - 1) * CHUNK_BITS < BitLen(n)
                  /\ BitLen(n) <= ExpectedLimbs * CHUNK_BITS)
                   => k = ExpectedLimbs

----------------------------------------------------------------------------
(* Properties of s_from_sub *)

\* the bytes of the subject consumed so far, read as a base-256 integer
Consumed == from_bytes_be(SubSeq(s_sub, 1, s_pos))

\* C18: Zero-scalar remap.  For every subject string, the empty one, strings
\* of NUL bytes and strings whose accumulation wraps to 0 included,
\* s_from_sub returns a non-zero scalar: 1 when the accumulation
\* acc <- acc*256 + byte is 0 and the accumulation otherwise; the inversion
\* of s + isk that follows fails exactly when s = -isk.
ZeroScalarRemap ==
    /\ s_acc = Consumed % FR_MODULUS
    /\ spc # "loop" =>
         /\ s_pos = Len(s_sub)
         /\ s_out \in Fr \ {0}
         /\ s_acc = 0 => s_out = 1
         /\ s_acc # 0 => s_out = s_acc
         /\ s_out = s_from_sub(s_sub)
    /\ spc = "inverted" =>
         /\ s_inv.tag = "None" <=> s_out = FrSub(0, s_isk)
         /\ s_inv.tag = "Some" => FrMul(s_inv.v, FrAdd(s_out, s_isk)) = 1

\* C18 witness: a subject of non-NUL bytes whose accumulation wraps to 0 has
\* been remapped to 1 and s + isk has been inverted
ZeroScalarRemapWitness ==
    /\ spc = "inverted"
    /\ s_sub # <<>>
    /\ \A j \in 1 .. Len(s_sub) : s_sub[j] # 0
    /\ Consumed > 0
    /\ s_acc = 0
    /\ s_out = 1
    /\ s_inv.tag = "Some"

----------------------------------------------------------------------------
(* Properties of base64_to_proof *)

\* the first byte of the payload that is not whitespace is '{'
RECURSIVE FirstVisibleIsBrace(_)
FirstVisibleIsBrace(bytes) ==
    /\ bytes # <<>>
    /\ \/ bytes[1] = 123
       \/ bytes[1] \in {9, 10, 11, 12, 13, 32} /\ FirstVisibleIsBrace(Tail(bytes))

\* the two legal lengths of the binary encoding
LegalLengths == {COMPRESSED_LEN, UNCOMPRESSED_LEN}

\* C19: Proof decoding branches.  base64_to_proof takes the JSON branch
\* exactly when the decoded payload is valid UTF-8 whose first non-whitespace
\* character is '{' and the binary branch otherwise; in the binary branch a
\* deserializer is run only on a payload of one of the two legal lengths and
\* every other length is an error; a string that is not base64, a JSON
\* payload the parser rejects and a binary payload of another length never
\* yield a proof.
ProofDecodingBranches ==
    LET bytes == p_arg.bytes
        asJson == IsUtf8(bytes) /\ FirstVisibleIsBrace(bytes)
    IN /\ p_branch # "none" => p_arg.b64ok
       /\ p_branch = "json" => asJson
       /\ p_branch = "binary" => ~asJson
       /\ ppc \in {"json", "binary"} => ppc = p_branch
       /\ p_deser # "none" => (p_branch = "binary" /\ Len(bytes) \in LegalLengths)
       /\ p_deser = "compressed" => Len(bytes) = COMPRESSED_LEN
       /\ p_deser = "uncompressed" => Len(bytes) = UNCOMPRESSED_LEN
       /\ ppc = "returned" =>
            /\ p_result.tag \in {"Ok", "Err"}
            /\ p_result = base64_to_proof(p_arg)
            /\ p_arg.b64ok => p_branch = (IF asJson THEN "json" ELSE "binary")
            /\ ~p_arg.b64ok => (p_result.tag = "Err" /\ p_branch = "none")
            /\ (p_branch = "json" /\ ~p_arg.json_ok) => p_result.tag = "Err"
            /\ p_branch = "json" => p_deser = "none"
            /\ (p_branch = "binary" /\ Len(bytes) \notin LegalLengths) =>
                 (p_result.tag = "Err" /\ p_deser = "none")
            /\ (p_branch = "binary" /\ Len(bytes) \in LegalLengths) =>
                 /\ p_deser # "none"
                 /\ p_result.tag = "Ok" <=> p_arg.deser_ok
            /\ p_result.tag = "Ok" =>
                 \/ p_branch = "json" /\ p_arg.json_ok
                 \/ p_branch = "binary" /\ Len(bytes) \in LegalLengths
                      /\ p_arg.deser_ok

\* C19 witness: a payload of a legal binary length that starts with
\* whitespace and then '{' has gone to the JSON branch and been rejected
\* there, although the binary deserializer would have accepted it
ProofDecodingBranchesWitness ==
    /\ ppc = "returned"
    /\ Len(p_arg.bytes) \in LegalLengths
    /\ p_arg.bytes[1] = 32
    /\ p_arg.bytes[2] = 123
    /\ p_arg.deser_ok
    /\ ~p_arg.json_ok
    /\ p_branch = "json"
    /\ p_deser = "none"
    /\ p_result = Err("json")

----------------------------------------------------------------------------
(* Properties of the key fetch *)

\* the number of steps named what the call has taken
RECURSIVE Count(_, _)
Count(steps, what) ==
    IF steps = <<>> THEN 0
    ELSE (IF Head(steps) = what THEN 1 ELSE 0) + Count(Tail(steps), what)

\* the key set holds a key with this kid
Lists(set, kid) ==
    set.tag = "set" /\ \E j \in 1 .. Len(set.keys) : set.keys[j].kid = kid

\* C20: No signing-key caching.  Every call of Verifier::verify fetches the
\* key set exactly once, as its first step, before the subject is parsed and
\* the proof decoded; the key it uses and the value it returns are those
\* determined by the response to its own fetch alone, so a call whose kid is
\* not in that response fails with 'kid not found' whatever an earlier call
\* obtained.
NoKeyCaching ==
    /\ v_steps # <<>> => v_steps[1] = "fetch"
    /\ Count(v_steps, "fetch") <= 1
    /\ vpc \notin {"idle", "fetch"} =>
         /\ Count(v_steps, "fetch") = 1
         /\ v_set \in VerifyDirs
    /\ vpc \in {"idle", "fetch"} => (v_steps = <<>> /\ v_set = NoSet)
    /\ Took("chunk") => fetch_google_key(v_set, v_req.kid) = Ok(v_jwk)
    /\ vpc = "done" =>
         /\ v_result = verify(v_set, v_req.sub, v_req.kid, v_req.proof_b64)
         /\ v_set.tag = "down" => v_result = Err("fetch")
         /\ (v_set.tag = "set" /\ ~Lists(v_set, v_req.kid)) =>
              v_result = Err("kid not found")

\* C20 witness: a call has failed with 'kid not found' for the kid with
\* which the previous call returned Ok(true); the key was in the key set
\* that call fetched and was removed from the directory in between
NoKeyCachingWitness ==
    /\ vpc = "done"
    /\ v_steps = <<"fetch">>
    /\ v_result = Err("kid not found")
    /\ v_prev = [kid |-> v_req.kid, ok |-> TRUE]
    /\ Lists(v_last, v_req.kid)
    /\ ~Lists(v_set, v_req.kid)

----------------------------------------------------------------------------
(* Properties of main *)

\* main parses the verifying key, then seals the issuer key state by its
\* call of generate_issuer_keys, and only then runs the HTTP server; when
\* either step fails it aborts and no request is ever handled; the state is
\* Sealed whenever a request arrives, a request that reads the state reads
\* it as Sealed, and no request is answered 'not ready'
SealOrdering ==
    /\ mpc # "serving" => \A r \in Handlers : pc[r] = "idle" /\ req[r] = NoRequest
    /\ mpc = "start" => kpc[1] = "idle"
    /\ mpc = "aborted" => kres[1].tag # "Ok"
    /\ mpc = "serving" =>
         /\ is_some(issuer_keys)
         /\ kres[1] = Ok(IvkBundle(issuer_keys.v))
    /\ \A r \in Handlers :
         /\ req[r] # NoRequest => is_some(seen[r])
         /\ stored[r] # Unread => (is_some(stored[r]) /\ stored[r] = issuer_keys)
         /\ outcome[r] # "bad_request"

\* C21 as claimed: seal before serve.  The server is started only after the
\* verifying key is parsed and the state sealed, and every generate_user_key
\* request ever handled has observed the state Sealed; 'not ready' is
\* unreachable.
SealBeforeServe ==
    /\ SealOrdering
    /\ \A r \in Answered(UserKeyPath) : is_some(stored[r])

\* the request's own inversion of s + isk is undefined
OwnInversionFails(r) ==
    /\ is_some(stored[r])
    /\ FrAdd(s_from_sub(req[r].body.user_id), stored[r].v.isk) = 0

\* C22 as claimed: failure isolation.  However a generate_user_key request
\* has ended, the issuer-key-state lock is afterwards usable and no longer
\* held by it; a request fails without an answer only through its own
\* inversion, never because an earlier request failed.
FailureIsolation ==
    /\ (\E r \in Answered(UserKeyPath) : TRUE) => ~poisoned
    /\ \A r \in Handlers : pc[r] \in {"idle", "done"} => holder # Task(r)
    /\ \A r \in Answered(UserKeyPath) :
         outcome[r] = "panic" => OwnInversionFails(r)

====
